---- MODULE Spec2Model ----
(***************************************************************************)
(* Model of run-qa-playbook.sh, the QA pipeline script of the repository:  *)
(* it starts two auxiliary services, runs the verification stages in a     *)
(* fixed order under `set -e`, scrapes the stage logs into shell variables *)
(* and counts the issues.                                                  *)
(*                                                                         *)
(* External commands (curl, node, java, npx, npm) are inputs: each action  *)
(* draws the command's exit code and the log or artifact it leaves from a  *)
(* small set.  Shell values are strings in the script; here a numeric      *)
(* string is its number and the empty string is EMPTY.                     *)
(***************************************************************************)
EXTENDS Integers, Sequences, FiniteSets, TLC

VARIABLES
    pc,             \* the line group of the script that runs next
    exitCode,       \* exit status of the script, NotExited while it runs
    procs,          \* process table of the machine: pid -> state
    sigterm,        \* pid -> number of termination requests sent by the run
    PRISM_PID,      \* line 64
    WEB_SERVER_PID, \* line 68
    probe,          \* result of each curl health check of STEP 1
    envMock,        \* the file .env.mock exists
    invoked,        \* stage commands invoked so far, in order
    stageExit,      \* stage command -> its exit code (NotExited: not run)
    console,        \* messages printed by print_success/_error/_warning/echo
    logs,           \* logs/*.log written by the stage commands
    artifacts,      \* report artifacts written by the stage commands
    analysis,       \* reports/analysis/*.txt, findings.md, analysis-summary.txt
    sh,             \* shell variables of the final analysis
    \* the property-based test suite, quality/pbt.spec.ts
    environ,        \* environment variables the script is started with
    pbtConfig,      \* what the PBT stage and its test suite run with
    \* ReservationService
    duplicatePolicy,\* the policy given to the constructor
    awaitEach,      \* the caller awaits every call before making the next
    reservations,   \* the Map id -> Reservation, in insertion order
    pending,        \* createReservation calls suspended at their await
    last,           \* the call that completed last, and its result
    ops,            \* the creates and deletes completed so far
    \* CurrencyUtils
    currencyCall    \* one call of CurrencyUtils: arguments, then outcome

scriptVars == <<pc, exitCode, procs, sigterm, PRISM_PID, WEB_SERVER_PID, probe,
                envMock, invoked, stageExit, console, logs, artifacts,
                analysis, sh>>
pbtVars == <<environ, pbtConfig>>
serviceVars == <<duplicatePolicy, awaitEach, reservations, pending, last, ops>>

utilVars == <<currencyCall>>

vars == <<scriptVars, pbtVars, serviceVars, utilVars>>

----------------------------------------------------------------------------
(* Bounds and values of the model *)

\* largest test count a stage log reports
MaxCount == 1

\* the empty string as the value of a shell variable
EMPTY == -1
\* a file that does not exist
ABSENT == -2
\* exit status of a command that has not terminated
NotExited == -1

----------------------------------------------------------------------------
(* Processes and pkill -f *)

\* pids 1..3 are processes the run did not start, 4 and 5 are the pids the
\* run's two background jobs get
ForeignPrism == 1
ForeignWeb == 2
ForeignOther == 3
OwnPrism == 4
OwnWeb == 5
Pids == {ForeignPrism, ForeignWeb, ForeignOther, OwnPrism, OwnWeb}
OwnPids == {OwnPrism, OwnWeb}

\* command line of each process, as words
Cmdline(pid) ==
    CASE pid = ForeignPrism -> <<"npx", "prism", "mock", "other-api.yaml">>
      [] pid = ForeignWeb   -> <<"node", "server.cjs">>
      [] pid = ForeignOther -> <<"node", "app.js">>
      [] pid = OwnPrism     -> <<"npx", "prism", "mock", "openapi/reservations.yaml">>
      [] pid = OwnWeb       -> <<"node", "server.cjs">>

\* a pkill that matches when any word of the pattern occurs
Matches_AnyWord(pattern, cmdline) ==
    \E i \in 1..Len(cmdline), j \in 1..Len(pattern) : cmdline[i] = pattern[j]

\* pkill -f: the pattern occurs anywhere in the full command line
Matches(pattern, cmdline) ==
    \E i \in 1..Len(cmdline) :
        /\ i + Len(pattern) - 1 <= Len(cmdline)
        /\ SubSeq(cmdline, i, i + Len(pattern) - 1) = pattern

PkillTargets(pattern, table) ==
    {p \in Pids : table[p] = "running" /\ Matches(pattern, Cmdline(p))}

\* pkill -f 'prism mock' || true ; pkill -f 'node server.cjs' || true
StopTargets(table) ==
    PkillTargets(<<"prism", "mock">>, table)
        \cup PkillTargets(<<"node", "server.cjs">>, table)

ProcsAfterStop(table) ==
    [p \in Pids |-> IF p \in StopTargets(table) THEN "terminated" ELSE table[p]]

SigtermAfterStop(table, sent) ==
    [p \in Pids |-> IF p \in StopTargets(table) THEN sent[p] + 1 ELSE sent[p]]

\* exit status of pkill: 0 when a process matched, 1 when none did
PkillStatus(pattern, table) == IF PkillTargets(pattern, table) = {} THEN 1 ELSE 0

\* a pkill without its `|| true`
OrTrue_Missing(status) == status

\* cmd || true: the status of the list is 0 whatever cmd returned
OrTrue(status) == 0

\* set -e: a simple command that exits nonzero outside a condition or a
\* || list ends the script
SetE(code) == code # 0

\* the stop lines end the script when one of their two lists fails
StopAborts(table) ==
    \/ SetE(OrTrue(PkillStatus(<<"prism", "mock">>, table)))
    \/ SetE(OrTrue(PkillStatus(<<"node", "server.cjs">>, table)))

----------------------------------------------------------------------------
(* Stage commands *)

Stages == {"validate", "karate", "wdio-ui", "wdio-api", "mutation", "pbt"}

\* `exit n` and an abort under set -e
Exit(code) ==
    /\ pc' = "exited"
    /\ exitCode' = code

\* a control flow that passes over STEP 7
Goto_SkipAnalysis(label) ==
    /\ pc' = IF label = "step7_analyze" THEN "step8_cleanup" ELSE label
    /\ UNCHANGED exitCode

Goto(label) ==
    /\ pc' = label
    /\ UNCHANGED exitCode

Invoke(stage, code) ==
    /\ invoked' = Append(invoked, stage)
    /\ stageExit' = [stageExit EXCEPT ![stage] = code]

Say(msgs) == console' = console \cup msgs

\* the variables the final analysis assigns (lines 272-380); unset at start
ShellVars ==
    {"KARATE_COUNT", "WDIO_COUNT", "MUTATION_SCORE", "PBT_PASSED", "PBT_TOTAL",
     "MUTANTS_KILLED", "MUTANTS_SURVIVED", "MUTANTS_TOTAL", "KARATE_PASSED",
     "KARATE_FAILED", "UI_WDIO_COUNT", "API_WDIO_COUNT", "TOTAL_ISSUES"}

----------------------------------------------------------------------------
(* The test suite and the service are not part of a run of the script: in  *)
(* the specification of the script they stay as they are here.             *)

\* no method of the service has returned yet
NoCall == [op |-> "none", id |-> "", email |-> "", ok |-> FALSE, returned |-> <<>>,
           error |-> "", before |-> <<>>]

\* an environment in which none of the four variables is set
NoEnv == [PBT_MODE |-> "", PBT_SEED |-> EMPTY, STRYKER |-> "", NODE_ENV |-> ""]

\* the test suite has not been launched: no child environment, no NUM_RUNS
NotLoaded == [at |-> "idle", env |-> NoEnv,
              NUM_RUNS |-> [standard |-> 0, medium |-> 0, small |-> 0]]

PbtIdle ==
    /\ environ = NoEnv
    /\ pbtConfig = NotLoaded

ServiceIdle ==
    /\ duplicatePolicy = "none"
    /\ awaitEach = TRUE
    /\ reservations = <<>>
    /\ pending = <<>>
    /\ last = NoCall
    /\ ops = <<>>

\* a Currency value that stands for none
NoCurrency == [amount |-> 0, currency |-> ""]

\* no function of CurrencyUtils is called
UtilIdle ==
    currencyCall = [fn |-> "none", amount |-> 0, code |-> "", a |-> NoCurrency,
                    b |-> NoCurrency, at |-> "idle", result |-> NoCurrency,
                    error |-> ""]

----------------------------------------------------------------------------
(* Initial state: the script has not started.  Processes started outside   *)
(* the run may be running.                                                 *)

\* report artifacts on disk: none
NoArtifacts == [karateHtml |-> FALSE, mutationJson |-> ABSENT]

\* what an earlier run can have left under reports/: line 60 creates the
\* directories with mkdir -p and nothing in the script removes their files
LeftBehind == [karateHtml : BOOLEAN, mutationJson : {ABSENT, 9516}]

ScriptState(label, live, left) ==
    /\ pc = label
    /\ exitCode = NotExited
    /\ procs = [p \in Pids |->
                   IF p \in live \cup {ForeignOther} THEN "running" ELSE "none"]
    /\ sigterm = [p \in Pids |-> 0]
    /\ PRISM_PID = 0
    /\ WEB_SERVER_PID = 0
    /\ probe = [mock |-> "none", web |-> "none"]
    /\ envMock = FALSE
    /\ invoked = <<>>
    /\ stageExit = [s \in Stages |-> NotExited]
    /\ console = {}
    /\ logs = [karate |-> <<>>, wdioUi |-> <<>>, wdioApi |-> <<>>,
               stryker |-> <<>>, pbt |-> <<>>]
    /\ artifacts = left
    /\ analysis = [karateCount |-> ABSENT, wdioCount |-> ABSENT,
                   mutationScore |-> ABSENT, pbtSummary |-> <<>>,
                   findings |-> FALSE, summary |-> <<>>]
    /\ sh = [v \in ShellVars |-> EMPTY]

\* the script is not running
ScriptIdle == ScriptState("none", {}, NoArtifacts)

Init ==
    /\ \E live \in SUBSET {ForeignPrism, ForeignWeb}, left \in LeftBehind :
          ScriptState("step1_pkill", live, left)
    /\ PbtIdle
    /\ ServiceIdle
    /\ UtilIdle

----------------------------------------------------------------------------
(* STEP 1: start the services *)

\* lines 55-60
Step1Pkill ==
    /\ pc = "step1_pkill"
    /\ UNCHANGED <<pbtVars, serviceVars, utilVars>>
    /\ procs' = ProcsAfterStop(procs)
    /\ sigterm' = SigtermAfterStop(procs, sigterm)
    /\ IF StopAborts(procs) THEN Exit(1) ELSE Goto("step1_start")
    /\ UNCHANGED <<PRISM_PID, WEB_SERVER_PID, probe, envMock, invoked, stageExit,
                   console, logs, artifacts, analysis, sh>>

\* lines 62-71
Step1Start ==
    /\ pc = "step1_start"
    /\ UNCHANGED <<pbtVars, serviceVars, utilVars>>
    /\ procs' = [procs EXCEPT ![OwnPrism] = "running", ![OwnWeb] = "running"]
    /\ PRISM_PID' = OwnPrism
    /\ WEB_SERVER_PID' = OwnWeb
    /\ Goto("step1_health_mock")
    /\ UNCHANGED <<sigterm, probe, envMock, invoked, stageExit, console, logs,
                   artifacts, analysis, sh>>

\* what the services can have become by the time curl probes them
\* (answers 2xx, answers with an HTTP error, does not answer, has exited)
ServiceOutcomes == {"healthy", "httpError", "unhealthy", "died"}

ProbeProcs(table, pid, outcome) ==
    IF outcome = "died" THEN [table EXCEPT ![pid] = "exited"] ELSE table

\* exit status of curl -f URL: 0, 22 on an HTTP error, 7 without an answer
Curl(outcome) ==
    CASE outcome = "healthy"   -> 0
      [] outcome = "httpError" -> 22
      [] OTHER                 -> 7

\* line 74: curl -f ... || [ $? -eq 22 ]
MockProbe(status) == IF status = 0 \/ status = 22 THEN "ok" ELSE "failed"

\* line 81: curl -f ...
WebProbe(status) == IF status = 0 THEN "ok" ELSE "failed"

\* a mock server probe that only warns
MockProbeFatal_Never(result) == FALSE

\* lines 76-79: the mock server is mandatory, a failed probe ends the run
MockProbeFatal(result) == result # "ok"

\* lines 73-79
Step1HealthMock ==
    /\ pc = "step1_health_mock"
    /\ UNCHANGED <<pbtVars, serviceVars, utilVars>>
    /\ \E outcome \in ServiceOutcomes :
          /\ procs' = ProbeProcs(procs, PRISM_PID, outcome)
          /\ probe' = [probe EXCEPT !.mock = MockProbe(Curl(outcome))]
          /\ IF MockProbeFatal(MockProbe(Curl(outcome)))
                THEN /\ Say({"Failed to start mock server"})
                     /\ Exit(1)
                ELSE /\ Say({"Mock server started"})
                     /\ Goto("step1_health_web")
    /\ UNCHANGED <<sigterm, PRISM_PID, WEB_SERVER_PID, envMock, invoked,
                   stageExit, logs, artifacts, analysis, sh>>

\* lines 81-89
Step1HealthWeb ==
    /\ pc = "step1_health_web"
    /\ UNCHANGED <<pbtVars, serviceVars, utilVars>>
    /\ \E outcome \in ServiceOutcomes :
          /\ procs' = ProbeProcs(procs, WEB_SERVER_PID, outcome)
          /\ probe' = [probe EXCEPT !.web = WebProbe(Curl(outcome))]
          /\ IF WebProbe(Curl(outcome)) = "ok"
                THEN Say({"Web server started", "Created .env.mock"})
                ELSE Say({"Web server may not have started correctly",
                          "Created .env.mock"})
    /\ envMock' = TRUE
    /\ Goto("step2_validate")
    /\ UNCHANGED <<sigterm, PRISM_PID, WEB_SERVER_PID, invoked, stageExit,
                   logs, artifacts, analysis, sh>>

----------------------------------------------------------------------------
(* STEP 2: validate the test data bundle (fail-fast) *)

ExitCodes == {0, 1}

\* a validation whose failure lets the run go on
FailFast_Never(code) == FALSE

\* lines 98-102: the else branch of the validation ends the run
FailFast(code) == code # 0

\* lines 94-102
Step2Validate ==
    /\ pc = "step2_validate"
    /\ UNCHANGED <<pbtVars, serviceVars, utilVars>>
    /\ \E code \in ExitCodes :
          /\ Invoke("validate", code)
          /\ IF FailFast(code)
                THEN /\ Say({"Test data bundle validation failed"})
                     /\ Exit(1)
                ELSE /\ Say({"Test data bundle validation passed"})
                     /\ Goto("step3_karate")
    /\ UNCHANGED <<procs, sigterm, PRISM_PID, WEB_SERVER_PID, probe, envMock, logs,
                   artifacts, analysis, sh>>

----------------------------------------------------------------------------
(* Shell arithmetic and test on values that may be the empty string *)

\* $((x + y)): an empty operand counts as 0
Num(v) == IF v = EMPTY THEN 0 ELSE v

\* [ "$a" -gt "$b" ]: an empty operand makes test fail with status 2, which
\* an `if` takes as false
TestGt(a, b) == a # EMPTY /\ b # EMPTY /\ a > b
TestEq(a, b) == a # EMPTY /\ b # EMPTY /\ a = b
TestNe(a, b) == a # EMPTY /\ b # EMPTY /\ a # b

\* : ${VAR:=0}
Default0(v) == IF v = EMPTY THEN 0 ELSE v

----------------------------------------------------------------------------
(* STEP 3: Karate contract tests (tolerant) *)

\* "scenarios: N | passed: p | failed: f"
KarateSummary(p, f) == [t |-> "summary", passed |-> p, failed |-> f]
\* a line with the text "failed:" and no number after it
KarateFailedWord == [t |-> "failedWord", passed |-> EMPTY, failed |-> EMPTY]

KarateLogs ==
    {<<>>, <<KarateFailedWord>>}
        \cup {<<KarateSummary(c[1], c[2])>> :
                 c \in {x \in (0..MaxCount) \X (0..MaxCount) :
                            x[1] + x[2] >= 1 /\ x[1] + x[2] <= MaxCount}}

HasSummary(log) == \E i \in 1..Len(log) : log[i].t = "summary"

\* Karate exits 0 when it ran and no scenario failed; it exits nonzero when
\* a scenario failed or when java or the jar could not start
KarateOutcomes ==
    {[code |-> 0, log |-> l] :
        l \in {k \in KarateLogs : HasSummary(k) /\ k[1].failed = 0}}
    \cup {[code |-> 1, log |-> l] :
        l \in {k \in KarateLogs : ~HasSummary(k) \/ k[1].failed > 0}}

\* lines 107-116
Step3Karate ==
    /\ pc = "step3_karate"
    /\ UNCHANGED <<pbtVars, serviceVars, utilVars>>
    /\ \E o \in KarateOutcomes :
          /\ Invoke("karate", o.code)
          /\ logs' = [logs EXCEPT !.karate = o.log]
          /\ artifacts' = [artifacts EXCEPT
                              !.karateHtml = @ \/ HasSummary(o.log)]
          /\ IF artifacts'.karateHtml
                THEN Say({"Karate tests completed"})
                ELSE Say({"Karate report not found"})
    /\ Goto("step4_wdio_ui")
    /\ UNCHANGED <<procs, sigterm, PRISM_PID, WEB_SERVER_PID, probe, envMock,
                   analysis, sh>>

----------------------------------------------------------------------------
(* STEP 4: WebDriverIO tests, UI then API (tolerant) *)

\* "  n passing (2s)"
WdioPassing(n) == [t |-> "passing", n |-> n]
\* a line with the word " passing" and no number before it
WdioPassingWord == [t |-> "passingWord", n |-> EMPTY]

WdioLogs ==
    {<<>>, <<WdioPassingWord>>} \cup {<<WdioPassing(n)>> : n \in 0..MaxCount}

\* a run that exits 0 reports its passing tests; a failed run leaves any log
WdioOutcomes ==
    {[code |-> 0, log |-> <<WdioPassing(n)>>] : n \in 1..MaxCount}
        \cup {[code |-> 1, log |-> l] : l \in WdioLogs}

\* grep -o '[0-9]* passing' LOG | head -1 | grep -o '[0-9]*' || echo "0"
GrepPassing(log) ==
    LET hits == SelectSeq(log, LAMBDA l : l.t \in {"passing", "passingWord"})
    IN  IF hits = <<>> THEN 0
        ELSE IF Head(hits).t = "passing" THEN Head(hits).n
        ELSE EMPTY

\* lines 121-125
Step4WdioUi ==
    /\ pc = "step4_wdio_ui"
    /\ UNCHANGED <<pbtVars, serviceVars, utilVars>>
    /\ \E o \in WdioOutcomes :
          /\ Invoke("wdio-ui", o.code)
          /\ logs' = [logs EXCEPT !.wdioUi = o.log]
    /\ Goto("step4_wdio_api")
    /\ UNCHANGED <<procs, sigterm, PRISM_PID, WEB_SERVER_PID, probe, envMock, console,
                   artifacts, analysis, sh>>

\* lines 127-152
Step4WdioApi ==
    /\ pc = "step4_wdio_api"
    /\ UNCHANGED <<pbtVars, serviceVars, utilVars>>
    /\ \E o \in WdioOutcomes :
          /\ Invoke("wdio-api", o.code)
          /\ logs' = [logs EXCEPT !.wdioApi = o.log]
          /\ LET UI_PASSED == GrepPassing(logs.wdioUi)
                 API_PASSED == GrepPassing(o.log)
                 TOTAL_WDIO_PASSED == Num(UI_PASSED) + Num(API_PASSED)
             IN  /\ Say({IF TestGt(UI_PASSED, 0)
                            THEN "WDIO UI tests completed"
                            ELSE "WDIO UI tests: no tests passed",
                         IF TestGt(API_PASSED, 0)
                            THEN "WDIO API tests completed"
                            ELSE "WDIO API tests failed (CDP not available)"})
                 /\ analysis' = [analysis EXCEPT !.wdioCount = TOTAL_WDIO_PASSED]
    /\ Goto("step5_mutation")
    /\ UNCHANGED <<procs, sigterm, PRISM_PID, WEB_SERVER_PID, probe, envMock,
                   artifacts, sh>>

----------------------------------------------------------------------------
(* STEP 5: mutation testing (tolerant).  Scores are in hundredths of a     *)
(* percent: 9516 is 95.16%.                                                *)

Scores == {7900, 8000, 9516, 10000}

\* "Final mutation score of 95.16 ..."
StrykerScore(s) == [t |-> "score", score |-> s, killed |-> EMPTY, survived |-> EMPTY]
\* the "All files" row of the table under "% Mutation score"
StrykerAllFiles(k, v) == [t |-> "allFiles", score |-> EMPTY, killed |-> k, survived |-> v]

Survivors(s) == IF s = 10000 THEN 0 ELSE 1

\* Stryker either runs to its report, or fails before writing anything
MutationOutcomes ==
    {[code |-> 0, log |-> <<StrykerScore(s), StrykerAllFiles(1, Survivors(s))>>,
      json |-> s] : s \in Scores}
        \cup {[code |-> 1, log |-> <<>>, json |-> ABSENT]}

\* lines 157-166
Step5Mutation ==
    /\ pc = "step5_mutation"
    /\ UNCHANGED <<pbtVars, serviceVars, utilVars>>
    /\ \E o \in MutationOutcomes :
          /\ Invoke("mutation", o.code)
          /\ logs' = [logs EXCEPT !.stryker = o.log]
          /\ artifacts' = [artifacts EXCEPT
                              !.mutationJson = IF o.json = ABSENT THEN @ ELSE o.json]
          /\ IF artifacts'.mutationJson # ABSENT
                THEN Say({"Mutation testing completed"})
                ELSE Say({"Mutation testing failed"})
    /\ Goto("step6_pbt")
    /\ UNCHANGED <<procs, sigterm, PRISM_PID, WEB_SERVER_PID, probe, envMock,
                   analysis, sh>>

----------------------------------------------------------------------------
(* STEP 6: property-based tests.  The command has no `|| true`, so under   *)
(* `set -e` (line 18) a nonzero exit ends the script at line 173 with that *)
(* exit code; the test of $? on line 175 is reached with $? = 0 only.      *)

\* "Test Suites: p passed, n total" and "Tests: p passed, n total"
JestSuites(p, n) == [t |-> "suites", passed |-> p, total |-> n]
JestTests(p, n) == [t |-> "tests", passed |-> p, total |-> n]

JestLogs ==
    {<<JestSuites(c[1], c[2]), JestTests(c[1], c[2])>> :
        c \in {x \in (0..MaxCount) \X (1..MaxCount) : x[1] <= x[2]}}

\* jest exits 0 when no test failed (suites may have been skipped) and 1
\* when one did; npm can exit either way without running jest at all
PbtOutcomes ==
    {[code |-> 0, log |-> l] : l \in JestLogs \cup {<<>>}}
        \cup {[code |-> 1, log |-> l] :
                 l \in {j \in JestLogs : j[1].passed < j[1].total} \cup {<<>>}}

\* lines 171-180
Step6Pbt ==
    /\ pc = "step6_pbt"
    /\ UNCHANGED <<pbtVars, serviceVars, utilVars>>
    /\ \E o \in PbtOutcomes :
          /\ Invoke("pbt", o.code)
          /\ logs' = [logs EXCEPT !.pbt = o.log]
          /\ IF SetE(o.code)
                THEN /\ Exit(o.code)
                     /\ UNCHANGED console
                ELSE /\ IF o.code = 0
                           THEN Say({"PBT completed"})
                           ELSE Say({"PBT tests failed"})
                     /\ Goto("step7_analyze")
    /\ UNCHANGED <<procs, sigterm, PRISM_PID, WEB_SERVER_PID, probe, envMock,
                   artifacts, analysis, sh>>

----------------------------------------------------------------------------
(* STEP 7: write reports/analysis/*.txt and reports/findings.md *)

\* the scenario count the script writes when the Karate report exists
KarateScenarioCount == 6

\* grep 'Tests:' logs/pbt-execution.log | tail -1
GrepTestsLine(log) ==
    LET hits == SelectSeq(log, LAMBDA l : l.t = "tests")
    IN  IF hits = <<>> THEN <<>> ELSE <<hits[Len(hits)]>>

\* lines 185-250
Step7Analyze ==
    /\ pc = "step7_analyze"
    /\ UNCHANGED <<pbtVars, serviceVars, utilVars>>
    /\ analysis' = [analysis EXCEPT
          !.karateCount = IF artifacts.karateHtml THEN KarateScenarioCount ELSE 0,
          !.wdioCount = 0,
          !.mutationScore = IF artifacts.mutationJson # ABSENT
                               THEN artifacts.mutationJson ELSE 0,
          !.pbtSummary = GrepTestsLine(logs.pbt),
          !.findings = TRUE]
    /\ Say({"Findings report generated at reports/findings.md"})
    /\ Goto("step8_cleanup")
    /\ UNCHANGED <<procs, sigterm, PRISM_PID, WEB_SERVER_PID, probe, envMock, invoked,
                   stageExit, logs, artifacts, sh>>

----------------------------------------------------------------------------
(* STEP 8: stop the servers, remove .env.mock *)

\* lines 255-264
Step8Cleanup ==
    /\ pc = "step8_cleanup"
    /\ UNCHANGED <<pbtVars, serviceVars, utilVars>>
    /\ procs' = ProcsAfterStop(procs)
    /\ sigterm' = SigtermAfterStop(procs, sigterm)
    /\ IF StopAborts(procs)
          THEN /\ Exit(1)
               /\ UNCHANGED <<envMock, console>>
          ELSE /\ envMock' = FALSE
               /\ Say({"Servers stopped and cleaned up"})
               /\ Goto("final_analysis")
    /\ UNCHANGED <<PRISM_PID, WEB_SERVER_PID, probe, invoked, stageExit, logs,
                   artifacts, analysis, sh>>

----------------------------------------------------------------------------
(* Final analysis and summary *)

\* cat FILE 2>/dev/null || echo "0"
CatOr0(file) == IF file = ABSENT THEN 0 ELSE file

\* grep 'mutation score of' LOG | sed -E 's/.*mutation score of ([0-9.]+).*/\1/'
\*   | head -1 || echo "0": the pipeline ends in head, the echo never runs
GrepMutationScore(log) ==
    LET hits == SelectSeq(log, LAMBDA l : l.t = "score")
    IN  IF hits = <<>> THEN EMPTY ELSE Head(hits).score

\* grep -o '[0-9]* passed' LOG | head -1 | cut -d' ' -f1 || echo "0"
GrepPbtPassed(log) ==
    LET hits == SelectSeq(log, LAMBDA l : l.t \in {"suites", "tests"})
    IN  IF hits = <<>> THEN EMPTY ELSE Head(hits).passed

\* grep -o '[0-9]* total' LOG | head -1 | cut -d' ' -f1 || echo "0"
GrepPbtTotal(log) ==
    LET hits == SelectSeq(log, LAMBDA l : l.t \in {"suites", "tests"})
    IN  IF hits = <<>> THEN EMPTY ELSE Head(hits).total

\* lines 283-292: the "All files" row of the table; the summary-line
\* fallback finds no "N killed" / "N survived" text in these logs
GrepMutants(log, field) ==
    LET hits == SelectSeq(log, LAMBDA l : l.t = "allFiles")
        table == IF hits = <<>> THEN EMPTY ELSE Head(hits)[field]
    IN  IF table = EMPTY \/ table = 0 THEN EMPTY ELSE table

\* grep -o 'failed:[[:space:]]*[0-9]*' LOG | tail -1 | grep -o '[0-9]*' || echo "0"
GrepKarate(log, field) ==
    LET hits == SelectSeq(log, LAMBDA l : l.t \in {"summary", "failedWord"})
    IN  IF hits = <<>> THEN 0 ELSE hits[Len(hits)][field]

\* the threshold of line 397, in hundredths of a percent
MinMutationScore == 8000

\* a comparison that also takes the threshold itself as below it
BcLess_OrEqual(score, limit) == score <= limit

\* (( $(echo "$MUTATION_SCORE < 80" | bc -l) ))
BcLess(score, limit) == score < limit

\* (( $(echo "$MUTATION_SCORE >= 90" | bc -l) ))
BcAtLeast(score, limit) == score >= limit

\* lines 351-359: the status line of the mutation testing section
MutationStatus(score) ==
    IF BcAtLeast(score, 9000) THEN "Mutation: EXCELLENT (>=90%)"
    ELSE IF BcAtLeast(score, MinMutationScore) THEN "Mutation: GOOD (>=80%)"
    ELSE IF BcAtLeast(score, 7000) THEN "Mutation: ACCEPTABLE (>=70%)"
    ELSE "Mutation: NEEDS IMPROVEMENT (<70%)"

\* lines 272-307, 329-331: the metrics, after the defaults of lines 301-307
Metrics ==
    LET ui  == GrepPassing(logs.wdioUi)
        api == GrepPassing(logs.wdioApi)
        k   == Default0(GrepMutants(logs.stryker, "killed"))
        v   == Default0(GrepMutants(logs.stryker, "survived"))
    IN  [KARATE_COUNT     |-> CatOr0(analysis.karateCount),
         WDIO_COUNT       |-> Num(ui) + Num(api),
         MUTATION_SCORE   |-> Default0(GrepMutationScore(logs.stryker)),
         PBT_PASSED       |-> Default0(GrepPbtPassed(logs.pbt)),
         PBT_TOTAL        |-> Default0(GrepPbtTotal(logs.pbt)),
         MUTANTS_KILLED   |-> k,
         MUTANTS_SURVIVED |-> v,
         MUTANTS_TOTAL    |-> k + v,
         KARATE_PASSED    |-> Default0(GrepKarate(logs.karate, "passed")),
         KARATE_FAILED    |-> Default0(GrepKarate(logs.karate, "failed")),
         UI_WDIO_COUNT    |-> ui,
         API_WDIO_COUNT   |-> api]

Bit(b) == IF b THEN 1 ELSE 0

\* a count in which skipped API tests and surviving mutants are issues too
CountIssues_AllMessages(m) ==
    Bit(TestGt(m.KARATE_FAILED, 0))
        + Bit(TestEq(m.UI_WDIO_COUNT, 0))
        + Bit(TestEq(m.API_WDIO_COUNT, 0))
        + Bit(BcLess(m.MUTATION_SCORE, MinMutationScore))
        + Bit(TestGt(m.MUTANTS_SURVIVED, 0))
        + Bit(TestNe(m.PBT_PASSED, m.PBT_TOTAL))

\* lines 380-409
CountIssues(m) ==
    Bit(TestGt(m.KARATE_FAILED, 0))
        + Bit(TestEq(m.UI_WDIO_COUNT, 0))
        + Bit(BcLess(m.MUTATION_SCORE, MinMutationScore))
        + Bit(TestNe(m.PBT_PASSED, m.PBT_TOTAL))

\* a status that tolerates one issue
OverallStatus_OffByOne(issues) ==
    IF TestEq(issues, 0) \/ TestEq(issues, 1) THEN "EXCELLENT" ELSE "issues found"

\* line 452
OverallStatus(issues) == IF TestEq(issues, 0) THEN "EXCELLENT" ELSE "issues found"

\* lines 383-415, 458-462
IssueMessages(m, issues) ==
    (IF TestGt(m.KARATE_FAILED, 0) THEN {"Contract tests have failures"} ELSE {})
    \cup (IF TestEq(m.UI_WDIO_COUNT, 0) THEN {"UI tests need fixes"} ELSE {})
    \cup (IF TestEq(m.API_WDIO_COUNT, 0) THEN {"API tests skipped"} ELSE {})
    \cup (IF BcLess(m.MUTATION_SCORE, MinMutationScore)
             THEN {"Mutation score below 80%"} ELSE {})
    \cup (IF TestGt(m.MUTANTS_SURVIVED, 0) THEN {"mutant(s) survived"} ELSE {})
    \cup (IF TestNe(m.PBT_PASSED, m.PBT_TOTAL)
             THEN {"Property-based tests have failures"} ELSE {})
    \cup (IF TestEq(issues, 0)
             THEN {"No critical issues found! Quality is excellent!",
                   "All steps completed successfully!"}
             ELSE {"Found area(s) needing attention",
                   "Playbook completed with warning(s)"})

\* the status of the last command of the script, the `if` of lines 458-462:
\* both branches end in an echo, which returns 0
FinalStatus(issues) == IF TestEq(issues, 0) THEN 0 ELSE 0

\* lines 269-462
FinalAnalysis ==
    /\ pc = "final_analysis"
    /\ UNCHANGED <<pbtVars, serviceVars, utilVars>>
    /\ LET m == Metrics
           issues == CountIssues(m)
       IN  /\ sh' = [v \in ShellVars |->
                        IF v = "TOTAL_ISSUES" THEN issues ELSE m[v]]
           /\ analysis' = [analysis EXCEPT
                 !.summary = <<[metrics |-> m, status |-> OverallStatus(issues),
                                issues |-> issues]>>]
           /\ Say(IssueMessages(m, issues)
                    \cup {MutationStatus(m.MUTATION_SCORE),
                          "Analysis saved to reports/analysis-summary.txt"})
           /\ Exit(FinalStatus(issues))
    /\ UNCHANGED <<procs, sigterm, PRISM_PID, WEB_SERVER_PID, probe, envMock, invoked,
                   stageExit, logs, artifacts>>

----------------------------------------------------------------------------
(* A stage command that never exits.  Every stage command runs in the      *)
(* foreground (lines 96, 109, 125, 129, 159, 173): the shell waits for it, *)
(* and the script sets no timeout, no trap and no watchdog.                *)

\* the place of the script at which each stage command runs
StagePlace(stage) ==
    CASE stage = "validate" -> "step2_validate"
      [] stage = "karate"   -> "step3_karate"
      [] stage = "wdio-ui"  -> "step4_wdio_ui"
      [] stage = "wdio-api" -> "step4_wdio_api"
      [] stage = "mutation" -> "step5_mutation"
      [] stage = "pbt"      -> "step6_pbt"

\* a stage command started in the background: the script goes on
Foreground_Background(stage) ==
    CASE stage = "validate" -> "step3_karate"
      [] stage = "karate"   -> "step4_wdio_ui"
      [] stage = "wdio-ui"  -> "step4_wdio_api"
      [] stage = "wdio-api" -> "step5_mutation"
      [] stage = "mutation" -> "step6_pbt"
      [] stage = "pbt"      -> "step7_analyze"

\* where the script is while a foreground command has not exited: the shell
\* waits for it and reads no further line
Foreground(stage) == "blocked"

StageHangs ==
    /\ \E stage \in Stages :
          /\ pc = StagePlace(stage)
          /\ invoked' = Append(invoked, stage)
          /\ pc' = Foreground(stage)
    /\ UNCHANGED <<exitCode, stageExit, procs, sigterm, PRISM_PID, WEB_SERVER_PID,
                   probe, envMock, console, logs, artifacts, analysis, sh>>
    /\ UNCHANGED <<pbtVars, serviceVars, utilVars>>

Next ==
    \/ StageHangs
    \/ Step1Pkill
    \/ Step1Start
    \/ Step1HealthMock
    \/ Step1HealthWeb
    \/ Step2Validate
    \/ Step3Karate
    \/ Step4WdioUi
    \/ Step4WdioApi
    \/ Step5Mutation
    \/ Step6Pbt
    \/ Step7Analyze
    \/ Step8Cleanup
    \/ FinalAnalysis

Spec == Init /\ [][Next]_vars

----------------------------------------------------------------------------
(* The property-based testing stage: the environment given to the script,  *)
(* the environment line 173 gives to npm, and the NUM_RUNS the test suite  *)
(* computes from it (quality/pbt.spec.ts lines 28-40).                     *)

\* PBT_MODE: PR | NIGHTLY, or not set (guide, lines 149-156)
PbtModes == {"", "PR", "NIGHTLY"}

\* PBT_SEED: 42, another seed, or not set
PbtSeeds == {EMPTY, 42, 7}

InitPbtConfig ==
    /\ ScriptIdle
    /\ ServiceIdle
    /\ UtilIdle
    /\ environ \in [PBT_MODE : PbtModes, PBT_SEED : PbtSeeds,
                    STRYKER : {"", "true", "false"},
                    NODE_ENV : {"", "test", "mutation"}]
    /\ pbtConfig = NotLoaded

\* line 173: PBT_MODE=PR PBT_SEED=42 npm run test:pbt -- the assignments
\* before the command replace whatever the script inherited
StageEnv(inherited) == [inherited EXCEPT !.PBT_MODE = "PR", !.PBT_SEED = 42]

LaunchPbtStage ==
    /\ pbtConfig.at = "idle"
    /\ pbtConfig' = [pbtConfig EXCEPT !.at = "launched", !.env = StageEnv(environ)]
    /\ UNCHANGED <<environ, scriptVars, serviceVars, utilVars>>

\* pbt.spec.ts lines 28-29
isMutationTesting(env) == env.STRYKER = "true" \/ env.NODE_ENV = "mutation"

\* pbt.spec.ts lines 36-40
NUM_RUNS(env) ==
    [standard |-> IF isMutationTesting(env) THEN 5 ELSE 100,
     medium   |-> IF isMutationTesting(env) THEN 5 ELSE 50,
     small    |-> IF isMutationTesting(env) THEN 3 ELSE 30]

LoadPbtSpec ==
    /\ pbtConfig.at = "launched"
    /\ pbtConfig' = [pbtConfig EXCEPT !.at = "loaded",
                                      !.NUM_RUNS = NUM_RUNS(pbtConfig.env)]
    /\ UNCHANGED <<environ, scriptVars, serviceVars, utilVars>>

NextPbtConfig ==
    \/ LaunchPbtStage
    \/ LoadPbtSpec

SpecPbtConfig == InitPbtConfig /\ [][NextPbtConfig]_vars

----------------------------------------------------------------------------
(* ReservationService (src/domain/reservations).  The Map of reservations  *)
(* is the sequence of its values in insertion order, one entry per id.  A  *)
(* reservation is its id and its email: the service reads no other field.  *)
(* createReservation is two steps: up to the await of the policy check     *)
(* (the snapshot and the check are evaluated at the call), and from the    *)
(* resumption to the return or the throw.                                  *)

\* number of calls of createReservation and deleteReservation in a history
MaxOps == 3

Ids == {"id1", "id2", "id3"}
Emails == {"ana@example.com", "bob@example.com"}
Reservations == [id : Ids, email : Emails]

\* Map.prototype.has
MapHas(map, id) == \E i \in DOMAIN map : map[i].id = id

\* a Map whose set forgets the entries it held
MapSet_ReplacesAll(map, r) == <<r>>

\* Map.prototype.set: replaces the value of a key in place, appends a new key
MapSet(map, r) ==
    IF MapHas(map, r.id)
       THEN [i \in DOMAIN map |-> IF map[i].id = r.id THEN r ELSE map[i]]
       ELSE Append(map, r)

\* a Map whose delete leaves the entry in place
MapDelete_KeepsEntry(map, id) == map

\* Map.prototype.delete
MapDelete(map, id) == SelectSeq(map, LAMBDA r : r.id # id)

\* a policy that detects nothing
EmailDuplicatePolicy_Never(reservation, existing) == FALSE

\* EmailDuplicatePolicy.check: existing.some(r => r.email === reservation.email)
EmailDuplicatePolicy(reservation, existing) ==
    \E i \in DOMAIN existing : existing[i].email = reservation.email

\* a NoDuplicatePolicy that compares emails after all
NoDuplicatePolicy_ByEmail(reservation, existing) ==
    \E i \in DOMAIN existing : existing[i].email = reservation.email

\* NoDuplicatePolicy.check
NoDuplicatePolicy(reservation, existing) == FALSE

\* this.duplicatePolicy.check
Check(policy, reservation, existing) ==
    IF policy = "email" THEN EmailDuplicatePolicy(reservation, existing)
                        ELSE NoDuplicatePolicy(reservation, existing)

\* new ReservationService(policy); the caller either awaits every call
\* before making the next one or lets createReservation calls overlap
InitService ==
    /\ ScriptIdle
    /\ PbtIdle
    /\ UtilIdle
    /\ duplicatePolicy \in {"email", "none"}
    /\ awaitEach \in BOOLEAN
    /\ reservations = <<>>
    /\ pending = <<>>
    /\ last = NoCall
    /\ ops = <<>>

\* a new call may start
MayCall == awaitEach => pending = <<>>

Record(op, id, email, ok) == [op |-> op, id |-> id, email |-> email, ok |-> ok]

\* createReservation, line 11: the check is called on a snapshot of the
\* stored values, then the call is suspended at the await
CreateCall ==
    /\ MayCall
    /\ Len(ops) + Len(pending) < MaxOps
    /\ \E r \in Reservations :
          pending' = Append(pending,
                            [reservation |-> r,
                             isDuplicate |-> Check(duplicatePolicy, r, reservations),
                             before |-> reservations])
    /\ UNCHANGED <<duplicatePolicy, awaitEach, reservations, last, ops>>
    /\ UNCHANGED <<scriptVars, pbtVars, utilVars>>

Without(seq, i) == [j \in 1..(Len(seq) - 1) |-> IF j < i THEN seq[j] ELSE seq[j + 1]]

\* createReservation, lines 13-18: the suspended call resumes
CreateResume ==
    /\ \E i \in DOMAIN pending :
          LET c == pending[i]
              r == c.reservation
          IN  /\ pending' = Without(pending, i)
              /\ IF c.isDuplicate
                    THEN /\ UNCHANGED reservations
                         /\ last' = [op |-> "create", id |-> r.id, email |-> r.email,
                                     ok |-> FALSE, returned |-> <<>>,
                                     error |-> "Duplicate reservation detected",
                                     before |-> c.before]
                    ELSE /\ reservations' = MapSet(reservations, r)
                         /\ last' = [op |-> "create", id |-> r.id, email |-> r.email,
                                     ok |-> TRUE, returned |-> <<r>>, error |-> "",
                                     before |-> c.before]
              /\ ops' = Append(ops, Record("create", r.id, r.email, ~c.isDuplicate))
    /\ UNCHANGED <<duplicatePolicy, awaitEach>>
    /\ UNCHANGED <<scriptVars, pbtVars, utilVars>>

\* deleteReservation, lines 29-31
DeleteReservation ==
    /\ MayCall
    /\ Len(ops) + Len(pending) < MaxOps
    /\ \E id \in Ids :
          /\ reservations' = MapDelete(reservations, id)
          /\ last' = [op |-> "delete", id |-> id, email |-> "",
                      ok |-> MapHas(reservations, id), returned |-> <<>>,
                      error |-> "", before |-> reservations]
          /\ ops' = Append(ops, Record("delete", id, "", MapHas(reservations, id)))
    /\ UNCHANGED <<duplicatePolicy, awaitEach, pending>>
    /\ UNCHANGED <<scriptVars, pbtVars, utilVars>>

\* getAllReservations, lines 25-27
GetAllReservations ==
    /\ MayCall
    /\ last' = [op |-> "getAll", id |-> "", email |-> "", ok |-> TRUE,
                returned |-> reservations, error |-> "", before |-> reservations]
    /\ UNCHANGED <<duplicatePolicy, awaitEach, reservations, pending, ops>>
    /\ UNCHANGED <<scriptVars, pbtVars, utilVars>>

\* Map.prototype.get: the value of the key, <<>> standing for undefined
MapGet(map, id) == SelectSeq(map, LAMBDA r : r.id = id)

\* getReservation, lines 21-23
GetReservation ==
    /\ MayCall
    /\ \E id \in Ids :
          last' = [op |-> "get", id |-> id, email |-> "", ok |-> TRUE,
                   returned |-> MapGet(reservations, id), error |-> "",
                   before |-> reservations]
    /\ UNCHANGED <<duplicatePolicy, awaitEach, reservations, pending, ops>>
    /\ UNCHANGED <<scriptVars, pbtVars, utilVars>>

\* a filter that lets every reservation through
FilterByEmail_All(values, email) == values

\* lines 34-35: Array.from(values).filter(r => r.email === email)
FilterByEmail(values, email) == SelectSeq(values, LAMBDA r : r.email = email)

\* findByEmail, lines 33-36
FindByEmail ==
    /\ MayCall
    /\ \E email \in Emails :
          last' = [op |-> "findByEmail", id |-> "", email |-> email, ok |-> TRUE,
                   returned |-> FilterByEmail(reservations, email), error |-> "",
                   before |-> reservations]
    /\ UNCHANGED <<duplicatePolicy, awaitEach, reservations, pending, ops>>
    /\ UNCHANGED <<scriptVars, pbtVars, utilVars>>

NextService ==
    \/ CreateCall
    \/ CreateResume
    \/ DeleteReservation
    \/ GetAllReservations
    \/ GetReservation
    \/ FindByEmail

SpecService == InitService /\ [][NextService]_vars

----------------------------------------------------------------------------
(* CurrencyUtils (src/utils/Email.ts lines 18-41): two pure functions.     *)
(* Amounts are integers; a call is its arguments, then what it returned or *)
(* threw.                                                                  *)

\* largest amount, in absolute value, given to the functions
MaxAmount == 2

Amounts == (0 - MaxAmount)..MaxAmount

\* the second argument of create may be left out
Codes == {"EUR", "USD", "undefined"}

\* the Currency values passed to add: the interface constrains neither field
Currencies == [amount : Amounts, currency : {"EUR", "USD"}]

Called(fn, amount, code, a, b) ==
    [fn |-> fn, amount |-> amount, code |-> code, a |-> a, b |-> b,
     at |-> "called", result |-> NoCurrency, error |-> ""]

InitCurrency ==
    /\ ScriptIdle
    /\ PbtIdle
    /\ ServiceIdle
    /\ currencyCall \in
          {Called("create", amount, code, NoCurrency, NoCurrency) :
              amount \in Amounts, code \in Codes}
          \cup {Called("add", 0, "", a, b) : a \in Currencies, b \in Currencies}

\* a test that also takes zero for negative
IsNegative_OrZero(amount) == amount <= 0

\* line 25: amount < 0
IsNegative(amount) == amount < 0

\* line 24: currency: string = 'EUR'
DefaultCode(code) == IF code = "undefined" THEN "EUR" ELSE code

Returned(value) == [currencyCall EXCEPT !.at = "returned", !.result = value]
Thrown(message) == [currencyCall EXCEPT !.at = "thrown", !.error = message]

\* CurrencyUtils.create, lines 24-29
CurrencyCreate ==
    /\ currencyCall.fn = "create"
    /\ currencyCall.at = "called"
    /\ currencyCall' =
          IF IsNegative(currencyCall.amount)
             THEN Thrown("Amount cannot be negative")
             ELSE Returned([amount |-> currencyCall.amount,
                            currency |-> DefaultCode(currencyCall.code)])
    /\ UNCHANGED <<scriptVars, pbtVars, serviceVars>>

\* CurrencyUtils.add, lines 31-36
CurrencyAdd ==
    /\ currencyCall.fn = "add"
    /\ currencyCall.at = "called"
    /\ currencyCall' =
          IF currencyCall.a.currency # currencyCall.b.currency
             THEN Thrown("Cannot add different currencies")
             ELSE Returned([amount |-> currencyCall.a.amount + currencyCall.b.amount,
                            currency |-> currencyCall.a.currency])
    /\ UNCHANGED <<scriptVars, pbtVars, serviceVars>>

NextCurrency ==
    \/ CurrencyCreate
    \/ CurrencyAdd

SpecCurrency == InitCurrency /\ [][NextCurrency]_vars

----------------------------------------------------------------------------
(* Properties *)

\* the order of the stage commands in the script
StageOrder == <<"validate", "karate", "wdio-ui", "wdio-api", "mutation", "pbt">>
\* the stages whose command ends in `|| true`
TolerantStages == {"karate", "wdio-ui", "wdio-api", "mutation"}

Failed(stage) == stageExit[stage] # NotExited /\ stageExit[stage] # 0
Started == {PRISM_PID, WEB_SERVER_PID} \ {0}
ReportsWritten == analysis.findings /\ analysis.summary # <<>>

\* C1: when the script has terminated, however it ended, no service the run
\* started is still running and each was sent at most one termination
\* request (every started service is stopped exactly once).
C1_StoppedExactlyOnce ==
    pc = "exited" =>
        \A p \in Started : procs[p] # "running" /\ sigterm[p] <= 1

\* C2: once the validation stage has exited nonzero, validate is the only
\* stage command the run has invoked: no later stage is ever invoked.
C2_NoStageAfterFailedValidation ==
    Failed("validate") => invoked = <<"validate">>

C2_Witness ==
    pc = "exited" /\ exitCode = 1 /\ Failed("validate")

\* C3: a run in which a tolerant stage exited nonzero has, when it ends,
\* invoked every stage and written the reports of the analysis.
C3_TolerantFailureReachesAnalysis ==
    (pc = "exited" /\ \E s \in TolerantStages : Failed(s)) =>
        invoked = StageOrder /\ ReportsWritten

\* C4: the script exits 0 only when TOTAL_ISSUES is zero.
C4_ExitZeroOnlyWithoutIssues ==
    (pc = "exited" /\ exitCode = 0) => sh.TOTAL_ISSUES = 0

\* C5: a failed mock server probe ends the run with status 1 before any
\* stage command is invoked; a failed web server probe only prints the
\* warning and the run goes on to the stages.
C5_HealthCheckPolicy ==
    /\ probe.mock = "failed" =>
          pc = "exited" /\ exitCode = 1 /\ invoked = <<>>
    /\ probe.web = "failed" =>
          /\ "Web server may not have started correctly" \in console
          /\ pc = "step2_validate" \/ invoked # <<>>

C5_Witness ==
    probe.web = "failed" /\ invoked = StageOrder /\ exitCode = 0

C7_ReportsOnEveryExit ==
    pc = "exited" => ReportsWritten

\* C8: .env.mock does not exist when the script has terminated.
C8_EnvFileRemovedOnEveryExit ==
    pc = "exited" => ~envMock

\* C9: a run whose property-based testing stage exited nonzero has printed
\* 'PBT tests failed', gone on through STEP 7, STEP 8 and the final summary,
\* and counted the failure as an issue.
C9_PbtFailureContinues ==
    (pc = "exited" /\ Failed("pbt")) =>
        /\ "PBT tests failed" \in console
        /\ "Servers stopped and cleaned up" \in console
        /\ ReportsWritten
        /\ TestGt(sh.TOTAL_ISSUES, 0)

\* C10: in a finished analysis of a run whose Karate stage exited nonzero,
\* TOTAL_ISSUES is at least 1 and the overall status is not EXCELLENT.
C10_TolerantFailureCounted ==
    (analysis.summary # <<>> /\ Failed("karate")) =>
        /\ TestGt(sh.TOTAL_ISSUES, 0)
        /\ analysis.summary[1].status # "EXCELLENT"

\* C11: the status written to analysis-summary.txt is EXCELLENT exactly when
\* TOTAL_ISSUES is 0 and otherwise reports TOTAL_ISSUES issues; the console
\* messages of lines 411-415 and 458-462 say the same.
C11_StatusIffNoIssues ==
    analysis.summary # <<>> =>
        LET s == analysis.summary[1]
        IN  /\ s.status = "EXCELLENT" <=> sh.TOTAL_ISSUES = 0
            /\ s.status # "EXCELLENT" =>
                  s.status = "issues found" /\ s.issues = sh.TOTAL_ISSUES
            /\ "No critical issues found! Quality is excellent!" \in console
                  <=> sh.TOTAL_ISSUES = 0
            /\ "All steps completed successfully!" \in console
                  <=> sh.TOTAL_ISSUES = 0
            /\ "Found area(s) needing attention" \in console
                  <=> sh.TOTAL_ISSUES > 0
            /\ "Playbook completed with warning(s)" \in console
                  <=> sh.TOTAL_ISSUES > 0

C11_Witness ==
    /\ analysis.summary # <<>>
    /\ sh.TOTAL_ISSUES = 2
    /\ analysis.summary[1].status = "issues found"

\* the issues that do not come from the mutation score
IssuesBesideMutation ==
    Bit(sh.KARATE_FAILED > 0) + Bit(sh.UI_WDIO_COUNT = 0)
        + Bit(sh.PBT_PASSED # sh.PBT_TOTAL)

\* C12: a mutation score of exactly 80 (8000 hundredths) adds no issue and
\* is classified GOOD; a score below 80, such as 79, adds exactly one issue.
C12_ThresholdBoundary ==
    analysis.summary # <<>> =>
        /\ sh.MUTATION_SCORE >= 8000 =>
              /\ sh.TOTAL_ISSUES = IssuesBesideMutation
              /\ "Mutation score below 80%" \notin console
        /\ sh.MUTATION_SCORE = 8000 => "Mutation: GOOD (>=80%)" \in console
        /\ sh.MUTATION_SCORE < 8000 =>
              /\ sh.TOTAL_ISSUES = IssuesBesideMutation + 1
              /\ "Mutation score below 80%" \in console
        /\ sh.MUTATION_SCORE = 7900 => "Mutation: ACCEPTABLE (>=70%)" \in console

C12_Witness ==
    /\ analysis.summary # <<>>
    /\ sh.MUTATION_SCORE = 8000
    /\ sh.TOTAL_ISSUES = 0

\* C13: whatever the stage logs and artifacts contain, every extracted metric
\* is a number when the analysis summary is written (0 standing for a log
\* that is missing, empty or malformed).
C13_ExtractionYieldsNumbers ==
    analysis.summary # <<>> => \A v \in ShellVars : sh[v] # EMPTY

\* what a variable that may be unset is worth with its documented default
OrDefault(value, unset, default) == IF value = unset THEN default ELSE value

\* C14: the PBT stage runs with the PBT_MODE and PBT_SEED given to the
\* script (PR and 42 when not set).
C14_PbtStageUsesEnvironment ==
    pbtConfig.at # "idle" =>
        /\ pbtConfig.env.PBT_MODE = OrDefault(environ.PBT_MODE, "", "PR")
        /\ pbtConfig.env.PBT_SEED = OrDefault(environ.PBT_SEED, EMPTY, 42)

\* the places of the script in the order of its text: STEP 1 (stop leftovers,
\* start, two health checks), STEP 2 .. STEP 8, the closing analysis
ScriptOrder ==
    <<"step1_pkill", "step1_start", "step1_health_mock", "step1_health_web",
      "step2_validate", "step3_karate", "step4_wdio_ui", "step4_wdio_api",
      "step5_mutation", "step6_pbt", "step7_analyze", "step8_cleanup",
      "final_analysis">>

Place(label) == CHOOSE i \in 1..Len(ScriptOrder) : ScriptOrder[i] = label

\* the run went through every step: the script reached its last line
Completed(code, stagesRun, report, envFile, table) ==
    /\ code = 0
    /\ stagesRun = StageOrder
    /\ report.findings
    /\ ~envFile
    /\ \A p \in OwnPids : table[p] # "running"

C16_HungStageIsTimedOut ==
    (pc # "exited" /\ invoked # <<>>
        /\ stageExit[invoked[Len(invoked)]] = NotExited) => ENABLED Next

\* C18: with EmailDuplicatePolicy and calls made one at a time, a
\* createReservation(r) is rejected with 'Duplicate reservation detected'
\* exactly when a reservation stored at the call has the email of r;
\* otherwise r is stored and returned.  A rejected call leaves the stored
\* reservations as they were.
C18_DuplicateRejectedExactly ==
    (duplicatePolicy = "email" /\ awaitEach /\ last.op = "create") =>
        LET r == [id |-> last.id, email |-> last.email]
            sameEmailStored ==
                \E i \in DOMAIN last.before : last.before[i].email = last.email
        IN  /\ last.ok <=> ~sameEmailStored
            /\ ~last.ok =>
                  /\ last.error = "Duplicate reservation detected"
                  /\ last.returned = <<>>
                  /\ reservations = last.before
            /\ last.ok =>
                  /\ last.error = ""
                  /\ last.returned = <<r>>
                  /\ \E i \in DOMAIN reservations : reservations[i] = r

C18_Witness ==
    /\ duplicatePolicy = "email"
    /\ awaitEach
    /\ last.op = "create"
    /\ ~last.ok
    /\ Len(ops) >= 2
    /\ reservations # <<>>

\* the successful calls of one kind in the history
Successful(op) == {i \in DOMAIN ops : ops[i].op = op /\ ops[i].ok}

\* C19: with EmailDuplicatePolicy and calls made one at a time, a create
\* with email e succeeds whenever the latest reservation created with e
\* has since been deleted by id: deleted reservations are not duplicates.
C19_RecreateAfterDelete ==
    (duplicatePolicy = "email" /\ awaitEach) =>
        \A k \in DOMAIN ops :
            (/\ ops[k].op = "create"
             /\ \E i \in Successful("create") :
                   /\ i < k
                   /\ ops[i].email = ops[k].email
                   /\ \A j \in Successful("create") :
                         (i < j /\ j < k) => ops[j].email # ops[k].email
                   /\ \E j \in Successful("delete") :
                         i < j /\ j < k /\ ops[j].id = ops[i].id)
            => ops[k].ok

C19_Witness ==
    /\ duplicatePolicy = "email"
    /\ awaitEach
    /\ Len(ops) = 3
    /\ ops[1].op = "create" /\ ops[1].ok
    /\ ops[2].op = "delete" /\ ops[2].ok /\ ops[2].id = ops[1].id
    /\ ops[3].op = "create" /\ ops[3].ok /\ ops[3].email = ops[1].email
    /\ Len(reservations) = 1

\* the successful creates of the history carry pairwise distinct ids and,
\* under EmailDuplicatePolicy, pairwise distinct emails
DistinctCreates ==
    \A i, j \in Successful("create") :
        i # j => /\ ops[i].id # ops[j].id
                 /\ duplicatePolicy = "email" => ops[i].email # ops[j].email

\* C20: after n successful creates with pairwise distinct ids (and emails,
\* under EmailDuplicatePolicy) and k successful deletes, starting from an
\* empty service, getAllReservations returns n - k reservations.
C20_CountInvariant ==
    (last.op = "getAll" /\ DistinctCreates) =>
        Len(last.returned)
            = Cardinality(Successful("create")) - Cardinality(Successful("delete"))

C20_Witness ==
    /\ last.op = "getAll"
    /\ DistinctCreates
    /\ Cardinality(Successful("create")) = 2
    /\ Cardinality(Successful("delete")) = 1
    /\ Len(last.returned) = 1

\* the methods of the service that only read
Reads == {"get", "getAll", "findByEmail"}

\* the elements of a sequence
Range(seq) == {seq[i] : i \in DOMAIN seq}

\* C21: what findByEmail(e) returned is exactly the stored reservations with
\* email e, each once; after getReservation, getAllReservations or
\* findByEmail the stored reservations are those stored before the read.
C21_FindByEmailExact ==
    /\ last.op = "findByEmail" =>
          /\ \A i \in DOMAIN last.returned :
                /\ last.returned[i].email = last.email
                /\ last.returned[i] \in Range(reservations)
          /\ \A i \in DOMAIN reservations :
                reservations[i].email = last.email
                    => reservations[i] \in Range(last.returned)
          /\ Cardinality(Range(last.returned)) = Len(last.returned)
    /\ last.op \in Reads => reservations = last.before
    /\ last.op = "getAll" => last.returned = reservations
    /\ last.op = "get" =>
          /\ Len(last.returned) <= 1
          /\ \A i \in DOMAIN reservations :
                reservations[i].id = last.id => last.returned = <<reservations[i]>>

C21_Witness ==
    /\ last.op = "findByEmail"
    /\ Len(last.returned) = 1
    /\ \E i, j \in DOMAIN ops :
          /\ i < j
          /\ ops[i].op = "create" /\ ops[i].ok /\ ops[i].email = last.email
          /\ ops[j].op = "delete" /\ ops[j].ok /\ ops[j].id = ops[i].id

\* C22: deleteReservation(id) returned true exactly when id was stored; the
\* reservations stored afterwards are those stored before with another id,
\* unchanged and in the same order (all of them when it returned false),
\* and a getReservation(id) that follows returns undefined.
C22_DeleteExact ==
    /\ last.op = "delete" =>
          /\ last.ok <=> \E i \in DOMAIN last.before : last.before[i].id = last.id
          /\ \A i \in DOMAIN reservations : reservations[i].id # last.id
          /\ \A r \in Range(last.before) :
                r.id # last.id => r \in Range(reservations)
          /\ Range(reservations) \subseteq Range(last.before)
          /\ Len(reservations) = Len(last.before) - (IF last.ok THEN 1 ELSE 0)
          /\ ~last.ok => reservations = last.before
    /\ (/\ last.op = "get"
        /\ ops # <<>>
        /\ ops[Len(ops)].op = "delete"
        /\ ops[Len(ops)].id = last.id) => last.returned = <<>>

C22_Witness ==
    /\ last.op = "delete"
    /\ last.ok
    /\ Len(last.before) = 2
    /\ Len(reservations) = 1

\* C23: with NoDuplicatePolicy every createReservation, awaited or
\* overlapping, succeeds and returns the reservation passed in, which is
\* then stored: no call of the history was rejected.
C23_NoPolicyNeverRejects ==
    duplicatePolicy = "none" =>
        /\ \A k \in DOMAIN ops : ops[k].op = "create" => ops[k].ok
        /\ last.op = "create" =>
              /\ last.ok
              /\ last.error = ""
              /\ last.returned = <<[id |-> last.id, email |-> last.email]>>
              /\ last.returned[1] \in Range(reservations)

C23_Witness ==
    /\ duplicatePolicy = "none"
    /\ last.op = "create"
    /\ last.ok
    /\ Len(reservations) = 3
    /\ \A i \in DOMAIN reservations : reservations[i].email = last.email

\* C24: create(amount, code) throws 'Amount cannot be negative' exactly when
\* amount < 0 (0 is accepted) and otherwise returns the amount and the code
\* given ('EUR' when the code is left out); add(a, b) throws 'Cannot add
\* different currencies' exactly when the codes differ and otherwise
\* returns the sum of the amounts in the common currency.
C24_CurrencyCreateAndAdd ==
    LET c == currencyCall
    IN  /\ (c.fn = "create" /\ c.at # "called") =>
              /\ c.at = "thrown" <=> c.amount < 0
              /\ c.at = "thrown" => c.error = "Amount cannot be negative"
              /\ c.at = "returned" =>
                    /\ c.result.amount = c.amount
                    /\ c.code # "undefined" => c.result.currency = c.code
                    /\ c.code = "undefined" => c.result.currency = "EUR"
        /\ (c.fn = "add" /\ c.at # "called") =>
              /\ c.at = "thrown" <=> c.a.currency # c.b.currency
              /\ c.at = "thrown" => c.error = "Cannot add different currencies"
              /\ c.at = "returned" =>
                    /\ c.result.amount = c.a.amount + c.b.amount
                    /\ c.result.currency = c.a.currency
                    /\ c.result.currency = c.b.currency

C24_Witness ==
    /\ currencyCall.fn = "create"
    /\ currencyCall.amount = 0
    /\ currencyCall.at = "returned"
    /\ currencyCall.result = [amount |-> 0, currency |-> "USD"]

\* C25: once reports/analysis/wdio-count.txt has been written after STEP 4,
\* no later step of the run changes the count it holds.
C25_RecordedMetricNeverChanges ==
    [][analysis.wdioCount # ABSENT => analysis'.wdioCount = analysis.wdioCount]_vars

\* C26: when the run has stopped the services it started or removed
\* .env.mock, the issue count and the overall status have been computed.
C26_CleanupAfterAggregation ==
    ((\E p \in OwnPids : sigterm[p] > 0) \/ (PRISM_PID # 0 /\ ~envMock /\ invoked # <<>>))
        => sh.TOTAL_ISSUES # EMPTY

\* the stage commands that have been invoked and have not exited
Running == {stage \in Range(invoked) : stageExit[stage] = NotExited}

Exited(stages) == \A stage \in stages : stageExit[stage] # NotExited

\* C27: at most one stage command is running, the one invoked last, and the
\* script does nothing else meanwhile; a count or score is extracted for a
\* stage only when its command has exited -- the WDIO count only when both
\* the UI run and the API run have, the final metrics when all stages have.
C27_StagesSequential ==
    /\ Cardinality(Running) <= 1
    /\ Running # {} => (pc = "blocked" /\ Running = {invoked[Len(invoked)]})
    /\ analysis.wdioCount # ABSENT => Exited({"wdio-ui", "wdio-api"})
    /\ (analysis.karateCount # ABSENT \/ analysis.mutationScore # ABSENT
            \/ analysis.findings) => Exited(Stages)
    /\ (\E v \in ShellVars : sh[v] # EMPTY) => Exited(Stages)
    /\ \A i \in DOMAIN invoked :
          i < Len(invoked) => stageExit[invoked[i]] # NotExited

C27_Witness ==
    /\ pc = "step5_mutation"
    /\ analysis.wdioCount = 2
    /\ stageExit["wdio-ui"] = 0
    /\ stageExit["wdio-api"] = 0

\* the places of the script from the first stage command to the cleanup
BeforeCleanup ==
    {"step2_validate", "step3_karate", "step4_wdio_ui", "step4_wdio_api",
     "step5_mutation", "step6_pbt", "step7_analyze", "step8_cleanup", "blocked"}

\* C28: when a stage command has been invoked, both services have been
\* launched and both health checks have a result, the mock server's being
\* a success; and from the first stage to the cleanup the run sends its
\* services no termination request: the mock server is running, and so is
\* the web server unless it had exited by its health check, which then
\* failed and was only warned about.
C28_ServicesReadyBeforeStages ==
    /\ invoked # <<>> =>
          /\ PRISM_PID = OwnPrism /\ WEB_SERVER_PID = OwnWeb
          /\ probe.mock = "ok"
          /\ probe.web \in {"ok", "failed"}
    /\ pc \in BeforeCleanup =>
          /\ \A p \in OwnPids : sigterm[p] = 0
          /\ procs[OwnPrism] = "running"
          /\ procs[OwnWeb] \in {"running", "exited"}
          /\ procs[OwnWeb] = "exited" => probe.web = "failed"
          /\ probe.web = "failed" =>
                "Web server may not have started correctly" \in console

C28_Witness ==
    /\ pc = "step4_wdio_api"
    /\ invoked = <<"validate", "karate", "wdio-ui">>
    /\ probe.web = "failed"
    /\ procs[OwnWeb] = "exited"
    /\ procs[OwnPrism] = "running"

\* C29: a stage is reported as executed, and its count or score recorded,
\* only when its command produced the artifact in this run: Karate wrote
\* its summary, Stryker ran to its report.
C29_ReportFromThisRunOnly ==
    /\ "Karate tests completed" \in console => HasSummary(logs.karate)
    /\ analysis.karateCount = KarateScenarioCount => HasSummary(logs.karate)
    /\ "Mutation testing completed" \in console => stageExit["mutation"] = 0
    /\ analysis.mutationScore \notin {ABSENT, 0} => stageExit["mutation"] = 0

\* the stop lines of the script: the start of STEP 1 and STEP 8
StopPlaces == {"step1_pkill", "step8_cleanup"}

\* C30: a stop step never ends the script; when no matching process is
\* running it changes no process and sends no request; and a second stop
\* applied to what a stop step leaves finds nothing to terminate and
\* changes neither the process table nor the requests sent.
C30_StopIdempotent ==
    [][(pc \in StopPlaces) =>
          (/\ pc' # "exited"
           /\ StopTargets(procs) = {} => (procs' = procs /\ sigterm' = sigterm)
           /\ StopTargets(procs') = {}
           /\ ProcsAfterStop(procs') = procs'
           /\ SigtermAfterStop(procs', sigterm') = sigterm')]_vars

C30_Witness ==
    /\ pc = "step1_start"
    /\ \A p \in Pids : sigterm[p] = 0
    /\ \A p \in Pids \ {ForeignOther} : procs[p] = "none"

\* C31: with EmailDuplicatePolicy, however createReservation calls overlap,
\* no reachable state holds two stored reservations with the same email
\* (so at most one of two overlapping creates with one email succeeded).
C31_NoTwoStoredWithSameEmail ==
    duplicatePolicy = "email" =>
        \A i, j \in DOMAIN reservations :
            i # j => reservations[i].email # reservations[j].email

\* at most one stored reservation per id
UniqueIds(map) == \A i, j \in DOMAIN map : i # j => map[i].id # map[j].id

\* this step is the return of a createReservation that stored its argument
CreateStored ==
    /\ Len(ops') = Len(ops) + 1
    /\ last'.op = "create"
    /\ last'.ok

\* C32: in every state at most one reservation is stored per id; a create
\* that passed the duplicate check for an id already stored puts its
\* reservation in the place of the stored one and leaves the others, and
\* their number, as they were; for a new id it adds one entry.
C32_KeyedById ==
    [][(/\ UniqueIds(reservations)
        /\ UniqueIds(reservations')
        /\ (CreateStored /\ MapHas(reservations, last'.id)) =>
              /\ Len(reservations') = Len(reservations)
              /\ \A i \in DOMAIN reservations :
                    reservations'[i] =
                        IF reservations[i].id = last'.id
                           THEN [id |-> last'.id, email |-> last'.email]
                           ELSE reservations[i]
        /\ (CreateStored /\ ~MapHas(reservations, last'.id)) =>
              Len(reservations') = Len(reservations) + 1)]_vars

C32_Witness ==
    /\ Len(ops) = 3
    /\ \A k \in DOMAIN ops : ops[k].op = "create" /\ ops[k].ok
    /\ ops[1].id # ops[2].id
    /\ ops[3].id = ops[1].id
    /\ ops[3].email # ops[1].email
    /\ Len(reservations) = 2
    /\ reservations[1] = [id |-> ops[3].id, email |-> ops[3].email]

\* C33: TOTAL_ISSUES is the number of the four conditions that hold of the
\* shell variables: KARATE_FAILED > 0, UI_WDIO_COUNT = 0, MUTATION_SCORE
\* below 80, PBT_PASSED different from PBT_TOTAL.  API_WDIO_COUNT = 0 and
\* MUTANTS_SURVIVED > 0 print their message and add nothing, so the count
\* is between 0 and 4.
C33_TotalIssuesIsConditionCount ==
    analysis.summary # <<>> =>
        /\ sh.TOTAL_ISSUES =
              Cardinality({c \in {"karate", "ui", "mutation", "pbt"} :
                  \/ c = "karate" /\ sh.KARATE_FAILED > 0
                  \/ c = "ui" /\ sh.UI_WDIO_COUNT = 0
                  \/ c = "mutation" /\ sh.MUTATION_SCORE < 8000
                  \/ c = "pbt" /\ sh.PBT_PASSED # sh.PBT_TOTAL})
        /\ sh.TOTAL_ISSUES \in 0..4
        /\ "Contract tests have failures" \in console <=> sh.KARATE_FAILED > 0
        /\ "UI tests need fixes" \in console <=> sh.UI_WDIO_COUNT = 0
        /\ "Property-based tests have failures" \in console
              <=> sh.PBT_PASSED # sh.PBT_TOTAL
        /\ "API tests skipped" \in console <=> sh.API_WDIO_COUNT = 0
        /\ "mutant(s) survived" \in console <=> sh.MUTANTS_SURVIVED > 0

C33_Witness ==
    /\ analysis.summary # <<>>
    /\ sh.API_WDIO_COUNT = 0
    /\ sh.MUTANTS_SURVIVED > 0
    /\ sh.TOTAL_ISSUES = 0
    /\ {"API tests skipped", "mutant(s) survived"} \subseteq console
====
